---- MODULE Spec2Model ----
(***************************************************************************)
(* Model of get_explanations.py (the explanation runner) and of            *)
(* test_explanations.py (the mock data / model generator).                 *)
(*                                                                         *)
(* Indices are numpy indices (0-based); a numpy array a is the TLA+        *)
(* sequence with a[i] stored at position i + 1.                            *)
(* Probabilities are integers in thousandths (0 .. Scale); a displayed     *)
(* confidence is an integer in tenths of a percent, so that 87.3% (873)    *)
(* and 87.0% (870) are different values.                                   *)
(* The external libraries (keras, numpy I/O, lime, matplotlib) are black   *)
(* boxes: each call either returns or raises one of the exception classes  *)
(* of ExcTypes.                                                            *)
(***************************************************************************)
EXTENDS Integers, Sequences, FiniteSets, TLC

\* ---- bounds ----
MaxSamples == 3        \* longest label / image collection
MaxCount == 3          \* largest num_samples passed to find_severe_samples

\* ---- program constants ----
RoundDecimals == 2     \* np.round(..., 2)
Percent == 100         \* ... * 100.0
MainNumSamples == 1    \* find_severe_samples(y_test, num_samples=1)

Scale == Percent * 10  \* probability 1.0 in thousandths

Labels == {0, 1}       \* labels of a dataset (np.random.choice([0, 1], ...))
AnyLabels == {0, 1, 2} \* labels of an arbitrary integer array

Min(a, b) == IF a <= b THEN a ELSE b

SeqsUpTo(S, n) == UNION {[1..k -> S] : k \in 0..n}

\* ---- exception classes ----
\* "OSError" is an OSError that is not a FileNotFoundError; "RuntimeError"
\* stands for every other subclass of Exception.
ExcTypes == {"FileNotFoundError", "ValueError", "OSError", "IndexError", "RuntimeError"}

\* what a library call may raise when it fails for a reason other than a
\* missing file (keras and numpy raise ValueError for a file or an input they
\* cannot use)
LibExc == {"ValueError", "OSError", "RuntimeError"}

\* np.load(path) on a path that does not exist: open() raises
\* FileNotFoundError
NpLoadMissingExc == {"FileNotFoundError"}

\* tf.keras.models.load_model('trained_model.h5') on a path that does not
\* exist: h5py-based loaders raise FileNotFoundError, the TF 2.x loaders
\* raise IOError (= OSError) "No file or directory found" / "SavedModel file
\* does not exist"
LoadModelMissingExc == {"FileNotFoundError", "OSError"}

\* ---- find_severe_samples ----
\* np.where(y_test == 1)[0]: the indices i with y[i] == 1, ascending
np_where_truthy(y) ==
    SelectSeq([i \in 1..Len(y) |-> i - 1], LAMBDA i : y[i + 1] # 0)

np_where(y) ==
    SelectSeq([i \in 1..Len(y) |-> i - 1], LAMBDA i : y[i + 1] = 1)

\* a[:n] for n >= 0
slice_to(a, n) == SubSeq(a, 1, Min(n, Len(a)))

find_severe_samples_no_raise(y_test, num_samples) ==
    [raised |-> "none", value |-> slice_to(np_where(y_test), num_samples)]

find_severe_samples(y_test, num_samples) ==
    LET severe_indices == np_where(y_test)
    IN  IF Len(severe_indices) = 0
        THEN [raised |-> "ValueError", value |-> <<>>]
        ELSE [raised |-> "none", value |-> slice_to(severe_indices, num_samples)]

\* ---- prediction, confidence ----
\* np.argmax(prediction): index of the first maximum of the flattened array
np_argmax_last(v) ==
    CHOOSE i \in 0..(Len(v) - 1) :
        /\ \A j \in 0..(Len(v) - 1) : v[j + 1] <= v[i + 1]
        /\ \A j \in (i + 1)..(Len(v) - 1) : v[j + 1] < v[i + 1]

np_argmax(v) ==
    CHOOSE i \in 0..(Len(v) - 1) :
        /\ \A j \in 0..(Len(v) - 1) : v[j + 1] <= v[i + 1]
        /\ \A j \in 0..(i - 1) : v[j + 1] < v[i + 1]

\* np.max(prediction)
np_max(v) == v[np_argmax(v) + 1]

RECURSIVE Pow10(_)
Pow10(k) == IF k = 0 THEN 1 ELSE 10 * Pow10(k - 1)

\* np.round(p, decimals): nearest multiple of 10^-decimals, halves to the
\* even multiple (numpy rounds half to even); p and the result in thousandths
np_round(p, decimals) ==
    LET step == Scale \div Pow10(decimals)
        q == p \div step
        r == p % step
    IN  IF 2 * r < step THEN q * step
        ELSE IF 2 * r > step THEN (q + 1) * step
        ELSE IF q % 2 = 0 THEN q * step ELSE (q + 1) * step

\* v * 100.0 for a probability v in thousandths, as tenths of a percent
times_percent(v) == (v * Percent * 10) \div Scale

\* round(p * 100, 2): the percentage is rounded to hundredths of a percent,
\* which keeps every thousandth of the probability
confidence_scale_then_round(prediction) == times_percent(np_max(prediction))

\* np.round(np.max(prediction), 2)*100.0
confidence(prediction) == times_percent(np_round(np_max(prediction), RoundDecimals))

\* the classifier's outputs: 2 probabilities summing to 1
Predictions == {<<p0, Scale - p0>> : p0 \in 0..Scale}

\* ---- state ----
VARIABLES
    hasModel,     \* trained_model.h5 exists
    hasX,         \* ./data/x_test.npy exists
    hasY,         \* ./data/y_test.npy exists
    diskXLen,     \* number of images in ./data/x_test.npy
    diskY,        \* the labels in ./data/y_test.npy
    generated,    \* the files on disk were written by test_explanations.main
    pc,           \* position of get_explanations.main
    x_test,       \* main: number of images loaded
    y_test,       \* main: labels loaded
    sample_idx,   \* main: selected index, -1 before the selection
    prediction,   \* main: model.predict(sample)[0], <<>> before it
    console,      \* class and confidence printed at line 71
    title,        \* class and confidence set as the figure's suptitle
    exc,          \* class of the exception raised inside the try block
    cause,        \* why it was raised: "missing", "no_positive" or "other"
    failedAt,     \* the statement that raised
    reports,      \* the error reports printed, one entry per except clause run
    success,      \* "LIME explanation generated successfully!" was printed
    figure,       \* lime_output.png was written by this run
    calls,        \* how many times each step of the runner was executed
    exitCode,     \* -1 while running, 0 after main returned, 1 after a traceback
    sel_pc,       \* find_severe_samples called on its own: "call", "returned", "off"
    sel_y,        \* its y_test
    sel_n,        \* its num_samples
    sel_out       \* its outcome

diskVars == <<hasModel, hasX, hasY, diskXLen, diskY, generated>>
selVars == <<sel_pc, sel_y, sel_n, sel_out>>
dataVars == <<x_test, y_test, sample_idx, prediction, console, title>>
excVars == <<exc, cause, failedAt>>
outVars == <<reports, success, figure, exitCode>>
vars == <<diskVars, pc, dataVars, excVars, outVars, calls, selVars>>

Steps == {"load", "select", "predict", "explain", "render"}

NoOutcome == [raised |-> "none", value |-> <<>>]
NoLine == [cls |-> -1, conf |-> -1]

RunnerIdle ==
    /\ pc = "idle"
    /\ x_test = 0
    /\ y_test = <<>>
    /\ sample_idx = -1
    /\ prediction = <<>>
    /\ console = NoLine
    /\ title = NoLine
    /\ exc = "none"
    /\ cause = "none"
    /\ failedAt = "none"
    /\ reports = <<>>
    /\ success = FALSE
    /\ figure = FALSE
    /\ calls = [s \in Steps |-> 0]
    /\ exitCode = -1

\* any content of the working directory; lime_output.png of this run does
\* not exist yet
Init ==
    /\ hasModel \in BOOLEAN
    /\ hasX \in BOOLEAN
    /\ hasY \in BOOLEAN
    /\ diskXLen \in (IF hasX THEN 0..MaxSamples ELSE {0})
    /\ diskY \in (IF hasY THEN SeqsUpTo(Labels, MaxSamples) ELSE {<<>>})
    /\ generated = FALSE
    /\ RunnerIdle
    /\ sel_pc = "off"
    /\ sel_y = <<>>
    /\ sel_n = 0
    /\ sel_out = NoOutcome

\* ---- test_explanations.py ----
\* create_mock_data: draw is the outcome of np.random.choice([0, 1], ...)
create_mock_data_unforced(draw) == [x_len |-> Len(draw), y |-> draw]

create_mock_data(draw) == [x_len |-> Len(draw), y |-> [draw EXCEPT ![1] = 1]]

\* main of test_explanations.py, run before the runner
mock_main ==
    /\ pc = "idle"
    /\ ~generated
    /\ \E draw \in [1..MaxSamples -> Labels] :
          LET d == create_mock_data(draw)
          IN  /\ diskXLen' = d.x_len
              /\ diskY' = d.y
    /\ hasX' = TRUE
    /\ hasY' = TRUE
    /\ hasModel' = TRUE
    /\ generated' = TRUE
    /\ UNCHANGED <<pc, dataVars, excVars, outVars, calls, selVars>>

\* ---- get_explanations.py: main ----
Raise(e, c, at) ==
    /\ exc' = e
    /\ cause' = c
    /\ failedAt' = at
    /\ pc' = "except"

Called(s) == calls' = [calls EXCEPT ![s] = @ + 1]

\* python get_explanations.py
main_start ==
    /\ pc = "idle"
    /\ pc' = "load_model"
    /\ UNCHANGED <<diskVars, dataVars, excVars, outVars, calls, selVars>>

\* model = tf.keras.models.load_model('trained_model.h5')
load_model ==
    /\ pc = "load_model"
    /\ Called("load")
    /\ \/ /\ hasModel
          /\ pc' = "load_x"
          /\ UNCHANGED excVars
       \/ /\ hasModel
          /\ \E e \in LibExc : Raise(e, "other", "load_model")
       \/ /\ ~hasModel
          /\ \E e \in LoadModelMissingExc : Raise(e, "missing", "load_model")
    /\ UNCHANGED <<diskVars, dataVars, outVars, selVars>>

\* x_test = np.load("./data/x_test.npy")
load_x ==
    /\ pc = "load_x"
    /\ \/ /\ hasX
          /\ x_test' = diskXLen
          /\ pc' = "load_y"
          /\ UNCHANGED excVars
       \/ /\ hasX
          /\ \E e \in LibExc : Raise(e, "other", "load_x")
          /\ UNCHANGED x_test
       \/ /\ ~hasX
          /\ \E e \in NpLoadMissingExc : Raise(e, "missing", "load_x")
          /\ UNCHANGED x_test
    /\ UNCHANGED <<diskVars, y_test, sample_idx, prediction, console, title,
                   outVars, calls, selVars>>

\* y_test = np.load("./data/y_test.npy")
load_y ==
    /\ pc = "load_y"
    /\ \/ /\ hasY
          /\ y_test' = diskY
          /\ pc' = "select"
          /\ UNCHANGED excVars
       \/ /\ hasY
          /\ \E e \in LibExc : Raise(e, "other", "load_y")
          /\ UNCHANGED y_test
       \/ /\ ~hasY
          /\ \E e \in NpLoadMissingExc : Raise(e, "missing", "load_y")
          /\ UNCHANGED y_test
    /\ UNCHANGED <<diskVars, x_test, sample_idx, prediction, console, title,
                   outVars, calls, selVars>>

\* severe_indices = find_severe_samples(y_test, num_samples=1)
\* sample_idx = severe_indices[0]
select ==
    /\ pc = "select"
    /\ Called("select")
    /\ LET r == find_severe_samples(y_test, MainNumSamples)
       IN  IF r.raised # "none"
           THEN /\ Raise(r.raised, "no_positive", "select")
                /\ UNCHANGED sample_idx
           ELSE /\ sample_idx' = r.value[1]
                /\ pc' = "expand"
                /\ UNCHANGED excVars
    /\ UNCHANGED <<diskVars, x_test, y_test, prediction, console, title,
                   outVars, selVars>>

\* sample = np.expand_dims(x_test[sample_idx], axis=0), two prints
expand ==
    /\ pc = "expand"
    /\ IF sample_idx >= x_test
       THEN Raise("IndexError", "other", "expand")
       ELSE /\ pc' = "predict"
            /\ UNCHANGED excVars
    /\ UNCHANGED <<diskVars, dataVars, outVars, calls, selVars>>

\* prediction = model.predict(sample); label = y_test[sample_idx]
predict ==
    /\ pc = "predict"
    /\ Called("predict")
    /\ \/ /\ \E v \in Predictions : prediction' = v
          /\ pc' = "print"
          /\ UNCHANGED excVars
       \/ /\ \E e \in LibExc : Raise(e, "other", "predict")
          /\ UNCHANGED prediction
    /\ UNCHANGED <<diskVars, x_test, y_test, sample_idx, console, title,
                   outVars, selVars>>

\* the line printed by
\* f"... '{classes[np.argmax(prediction)]}' with {np.round(np.max(prediction), 2)*100.0}% ..."
format_line(p) == [cls |-> np_argmax(p), conf |-> confidence(p)]

\* print the actual class, the predicted class and the confidence;
\* input_image = sample[0]
print_prediction ==
    /\ pc = "print"
    /\ console' = format_line(prediction)
    /\ pc' = "explain"
    /\ UNCHANGED <<diskVars, x_test, y_test, sample_idx, prediction, title,
                   excVars, outVars, calls, selVars>>

\* ---- get_explanations.py: generate_lime_explanation ----
\* explainer.explain_instance(...) and explanation.get_image_and_mask(...)
explain ==
    /\ pc = "explain"
    /\ Called("explain")
    /\ \/ /\ pc' = "plot"
          /\ UNCHANGED excVars
       \/ \E e \in LibExc : Raise(e, "other", "explain")
    /\ UNCHANGED <<diskVars, dataVars, outVars, selVars>>

\* plt.subplots, the two panels, plt.suptitle(...), plt.tight_layout()
plot ==
    /\ pc = "plot"
    /\ Called("render")
    /\ \/ /\ title' = format_line(prediction)
          /\ pc' = "savefig"
          /\ UNCHANGED excVars
       \/ /\ \E e \in LibExc : Raise(e, "other", "plot")
          /\ UNCHANGED title
    /\ UNCHANGED <<diskVars, x_test, y_test, sample_idx, prediction, console,
                   outVars, selVars>>

\* plt.savefig(save_path) where the file is written although savefig raises
savefig_partial ==
    /\ pc = "savefig"
    /\ \/ /\ figure' = TRUE
          /\ pc' = "show"
          /\ UNCHANGED excVars
       \/ /\ \E e \in LibExc : Raise(e, "other", "savefig")
          /\ figure' = TRUE
    /\ UNCHANGED <<diskVars, dataVars, reports, success, exitCode, calls, selVars>>

\* plt.savefig(save_path)
savefig ==
    /\ pc = "savefig"
    /\ \/ /\ figure' = TRUE
          /\ pc' = "show"
          /\ UNCHANGED excVars
       \/ /\ \E e \in LibExc : Raise(e, "other", "savefig")
          /\ UNCHANGED figure
    /\ UNCHANGED <<diskVars, dataVars, reports, success, exitCode, calls, selVars>>

\* plt.show()
show ==
    /\ pc = "show"
    /\ \/ /\ pc' = "success"
          /\ UNCHANGED excVars
       \/ \E e \in LibExc : Raise(e, "other", "show")
    /\ UNCHANGED <<diskVars, dataVars, outVars, calls, selVars>>

\* print("LIME explanation generated successfully!"); main returns
print_success ==
    /\ pc = "success"
    /\ success' = TRUE
    /\ exitCode' = 0
    /\ pc' = "done"
    /\ UNCHANGED <<diskVars, dataVars, excVars, reports, figure, calls, selVars>>

\* ---- get_explanations.py: the except clauses of main ----
\* the except clause that handles an exception of class e:
\*   except FileNotFoundError -> "ArtifactNotFound"  (Error: Required file not found - ...)
\*   except ValueError        -> "NoPositiveSamples" (Error: ...)
\*   except Exception         -> "Unexpected"        (Unexpected error: ...)
except_clause_no_catch_all(e) ==
    IF e = "FileNotFoundError" THEN "ArtifactNotFound"
    ELSE IF e = "ValueError" THEN "NoPositiveSamples"
    ELSE "propagate"

except_clause_exception_first(e) ==
    IF e \in ExcTypes THEN "Unexpected"
    ELSE IF e = "FileNotFoundError" THEN "ArtifactNotFound"
    ELSE IF e = "ValueError" THEN "NoPositiveSamples"
    ELSE "propagate"

except_clause(e) ==
    IF e = "FileNotFoundError" THEN "ArtifactNotFound"
    ELSE IF e = "ValueError" THEN "NoPositiveSamples"
    ELSE IF e \in ExcTypes THEN "Unexpected"
    ELSE "propagate"

\* the matching except clause prints its report and main returns; an
\* exception no clause matches leaves main and ends the process with a
\* traceback
handle ==
    /\ pc = "except"
    /\ LET clause == except_clause(exc)
       IN  IF clause = "propagate"
           THEN /\ exitCode' = 1
                /\ UNCHANGED reports
           ELSE /\ exitCode' = 0
                /\ reports' = Append(reports, clause)
    /\ pc' = "done"
    /\ UNCHANGED <<diskVars, dataVars, excVars, success, figure, calls, selVars>>

Next ==
    \/ mock_main
    \/ main_start
    \/ load_model
    \/ load_x
    \/ load_y
    \/ select
    \/ expand
    \/ predict
    \/ print_prediction
    \/ explain
    \/ plot
    \/ savefig
    \/ show
    \/ print_success
    \/ handle

Spec == Init /\ [][Next]_vars

\* ---- find_severe_samples called with any labels and any count ----
InitSel ==
    /\ hasModel = FALSE
    /\ hasX = FALSE
    /\ hasY = FALSE
    /\ diskXLen = 0
    /\ diskY = <<>>
    /\ generated = FALSE
    /\ RunnerIdle
    /\ sel_pc = "call"
    /\ sel_y \in SeqsUpTo(AnyLabels, MaxSamples)
    /\ sel_n \in 1..MaxCount
    /\ sel_out = NoOutcome

call_find_severe_samples ==
    /\ sel_pc = "call"
    /\ sel_out' = find_severe_samples(sel_y, sel_n)
    /\ sel_pc' = "returned"
    /\ UNCHANGED <<diskVars, pc, dataVars, excVars, outVars, calls, sel_y, sel_n>>

NextSel == call_find_severe_samples

SpecSel == InitSel /\ [][NextSel]_vars

\* ---- properties ----
Positives(y) == {i \in 0..(Len(y) - 1) : y[i + 1] = 1}

MaxOf(v) == IF v[1] >= v[2] THEN v[1] ELSE v[2]

Abs(n) == IF n >= 0 THEN n ELSE 0 - n

\* C1: when the labels contain a 1 and n >= 1, find_severe_samples returns
\* without raising exactly the first min(n, number of positives) indices whose
\* label is 1, strictly ascending, none skipped and none with another label.
C1_FirstPositivesInOrder ==
    (sel_pc = "returned" /\ Positives(sel_y) # {}) =>
        LET r == sel_out.value
        IN  /\ sel_out.raised = "none"
            /\ Len(r) = Min(sel_n, Cardinality(Positives(sel_y)))
            /\ \A k \in 1..Len(r) : r[k] \in Positives(sel_y)
            /\ \A k \in 1..(Len(r) - 1) : r[k] < r[k + 1]
            /\ \A i \in Positives(sel_y) :
                  i < r[Len(r)] => \E k \in 1..Len(r) : r[k] = i

\* a call that truncates (more positives than requested) on labels that also
\* hold a value that is neither 0 nor 1
C1_Witness ==
    /\ sel_pc = "returned"
    /\ Cardinality(Positives(sel_y)) > sel_n
    /\ \E i \in 1..Len(sel_y) : sel_y[i] = 2
    /\ Len(sel_out.value) = sel_n

\* C2: when the labels hold no 1 (the empty collection included),
\* find_severe_samples raises ValueError for every count and returns no index.
C2_NoPositiveRaises ==
    (sel_pc = "returned" /\ Positives(sel_y) = {}) =>
        /\ sel_out.raised = "ValueError"
        /\ sel_out.value = <<>>

C2_Witness ==
    /\ sel_pc = "returned"
    /\ Len(sel_y) > 1
    /\ Positives(sel_y) = {}
    /\ sel_n > 1
    /\ sel_out.raised = "ValueError"

\* C3 as claimed: in every run in which a step fails (plt.show included), no
\* output figure has been written when the run ends.
C3_NoFigureOnAnyFailure ==
    (pc = "done" /\ exc # "none") => ~figure

\* C3 amended: the figure is written only after load, select, predict, explain,
\* the plot and savefig itself have succeeded; in a run in which one of these
\* fails no figure has been written when the run ends. Only a failure of
\* plt.show(), which runs after savefig, leaves the figure written.
C3_FigureOnlyAfterSavefigSucceeded ==
    /\ figure =>
          /\ failedAt \in {"none", "show"}
          /\ \A s \in Steps : calls[s] = 1
          /\ title = format_line(prediction)
    /\ (pc = "done" /\ exc # "none" /\ failedAt # "show") => ~figure

\* a run that ended with savefig raising, and no figure
C3_Witness ==
    /\ pc = "done"
    /\ failedAt = "savefig"
    /\ exc = "OSError"
    /\ ~figure

\* C4 as claimed: when the classifier file or a dataset file is missing at the
\* start of the run, the run reports ArtifactNotFound (only), selects, predicts
\* and explains nothing and writes no figure.
C4_MissingFileReportsArtifactNotFound ==
    (pc = "done" /\ (~hasModel \/ ~hasX \/ ~hasY)) =>
        /\ reports = <<"ArtifactNotFound">>
        /\ calls["select"] = 0
        /\ calls["predict"] = 0
        /\ calls["explain"] = 0
        /\ ~figure

\* C5: when every artifact loads and no label is 1, the run reports
\* NoPositiveSamples, never calls the classifier or the explainer and writes
\* no figure.
C5_NoPositiveReported ==
    (calls["select"] = 1 /\ Positives(y_test) = {}) =>
        /\ calls["predict"] = 0
        /\ calls["explain"] = 0
        /\ ~figure
        /\ ~success
        /\ pc \in {"except", "done"}
        /\ pc = "done" => reports = <<"NoPositiveSamples">>

C5_Witness ==
    /\ pc = "done"
    /\ calls["select"] = 1
    /\ Len(y_test) > 1
    /\ Positives(y_test) = {}
    /\ reports = <<"NoPositiveSamples">>

\* C6 as claimed: a failure that is neither a missing artifact nor the
\* selector's no-positive error is reported through the Unexpected branch,
\* whatever the class of the exception.
C6_OtherFailuresReportedUnexpected ==
    (pc = "done" /\ cause = "other") => reports = <<"Unexpected">>

\* C7: main never lets an exception out: a run always ends with main
\* returning (exit code 0); a run in which a step failed has printed exactly
\* one error report and no success message; no step is executed twice.
C7_AlwaysGraceful ==
    /\ exitCode # 1
    /\ \A s \in Steps : calls[s] <= 1
    /\ Len(reports) <= 1
    /\ pc = "done" =>
          /\ exitCode = 0
          /\ exc # "none" => (Len(reports) = 1 /\ ~success)
          /\ exc = "none" => (reports = <<>> /\ success)

\* a run ended by an exception that only the catch-all clause handles
C7_Witness ==
    /\ pc = "done"
    /\ failedAt = "explain"
    /\ exc = "RuntimeError"
    /\ reports = <<"Unexpected">>
    /\ exitCode = 0

\* C8: on a dataset written by the generator the selection never fails and
\* selects index 0, and a run in which no step fails ends with the figure
\* written.
C8_GeneratedDataSelectsIndexZero ==
    generated =>
        /\ Len(diskY) = diskXLen
        /\ diskY[1] = 1
        /\ failedAt # "select"
        /\ calls["select"] = 1 => sample_idx = 0
        /\ (pc = "done" /\ exc = "none") => (figure /\ success /\ sample_idx = 0)

\* a successful run on a generated dataset whose random draw also holds a 0
C8_Witness ==
    /\ generated
    /\ pc = "done"
    /\ exc = "none"
    /\ sample_idx = 0
    /\ figure
    /\ \E i \in 1..Len(y_test) : y_test[i] = 0

\* C9: the confidence printed on the console is a whole number of percent (the
\* rounding to 2 decimals comes before the scaling by 100) within half a
\* percent of the raw maximum probability: 0.873 gives 87.0, 0.994 gives 99.0,
\* 0.996 gives 100.0; the figure title shows the same value.
C9_RoundThenScale ==
    /\ console # NoLine =>
          /\ console.conf % 10 = 0
          /\ Abs(console.conf - MaxOf(prediction)) <= 5
          /\ MaxOf(prediction) = 873 => console.conf = 870
          /\ MaxOf(prediction) = 994 => console.conf = 990
          /\ MaxOf(prediction) = 996 => console.conf = 1000
    /\ title # NoLine => title.conf = console.conf

\* a raw probability of 0.996 shown as 100.0 in the console and in the title
C9_Witness ==
    /\ title # NoLine
    /\ MaxOf(prediction) = 996
    /\ console.conf = 1000
    /\ title.conf = 1000

\* C10: the predicted class shown (console and title) is the position of the
\* strictly larger of the two probabilities, and 0 when they are equal.
C10_ArgmaxFirstMaximum ==
    \A line \in {console, title} :
        line # NoLine =>
            /\ prediction[1] > prediction[2] => line.cls = 0
            /\ prediction[2] > prediction[1] => line.cls = 1
            /\ prediction[1] = prediction[2] => line.cls = 0

\* a tie, shown as class 0 in the console and in the title
C10_Witness ==
    /\ title # NoLine
    /\ prediction[1] = prediction[2]
    /\ console.cls = 0
    /\ title.cls = 0

====
